---- MODULE Spec2Model ----
(***************************************************************************)
(* State-machine model of the two encrypted-column holders of package sqlx *)
(*   EncryptColumn[T]  (src/unnamed/part_000)                               *)
(*   SecureField[T]    (src/unnamed/part_001)                               *)
(* under the specification Spec, and of package slice                      *)
(*   Add     (src/internal/slice/add.go)                                    *)
(*   Delete  (src/unnamed/part_002)                                         *)
(* under the specification SliceSpec.                                      *)
(* One behaviour follows one holder of one static type T.  Byte sequences  *)
(* are sequences of 0..255; Go strings are modelled by their bytes.        *)
(* The AES-GCM primitive of the Go standard library is modelled by a       *)
(* counter-mode stream cipher (byte-wise addition of a key stream) with a  *)
(* keyed tag over (key, nonce, ciphertext): same envelope layout, same     *)
(* length arithmetic, same accept/reject structure; the tag separates the  *)
(* modelled keys and every single-byte change of the ciphertext.           *)
(* Integers are TLC's 32-bit integers, so the values of the 64-bit types   *)
(* are drawn from the range they share with int32; float32/float64         *)
(* are not modelled.  A 64-bit platform is assumed (int = int64).          *)
(***************************************************************************)
EXTENDS Integers, Sequences, FiniteSets, TLC

(***************************************************************************)
(* Bounds of the model                                                     *)
(***************************************************************************)
\* number of distinct nonces the random source can deliver
NumNonces == 2
\* the count of cipher-context derivations saturates at this value
MaxInitCount == 2

(***************************************************************************)
(* Constants of the primitive                                              *)
(***************************************************************************)
NonceSize == 12
TagSize == 16

Byte == 0..255

(***************************************************************************)
(* Byte helpers                                                            *)
(***************************************************************************)
RECURSIVE BigEndian(_, _)
\* binary.BigEndian: the n low bytes of v (two's complement), most significant first
BigEndian(v, n) ==
    IF n = 0 THEN <<>> ELSE Append(BigEndian(v \div 256, n - 1), v % 256)

RECURSIVE AccBytes(_, _, _)
AccBytes(acc, b, i) ==
    IF i > Len(b) THEN acc ELSE AccBytes(acc * 256 + b[i], b, i + 1)

\* the unsigned integer a big-endian byte sequence stands for
UintOf(b) == AccBytes(0, b, 1)

\* the signed (two's complement) integer a big-endian byte sequence stands for
IntOf(b) ==
    IF b = <<>> THEN 0
    ELSE AccBytes(IF b[1] >= 128 THEN b[1] - 256 ELSE b[1], b, 2)

Take(s, n) == SubSeq(s, 1, n)
Drop(s, n) == SubSeq(s, n + 1, Len(s))

(***************************************************************************)
(* Static types T of a holder                                              *)
(***************************************************************************)
SignedTypes == {"int8", "int16", "int32", "int64"}
UnsignedTypes == {"uint8", "uint16", "uint32", "uint64"}
\* "bool" stands for the types served by the structured fallback
Types == {"string", "bytes", "int", "uint", "bool"} \cup SignedTypes \cup UnsignedTypes
PrimitiveTypes == Types \ {"bool"}

\* encoded width in bytes of the fixed-width integer types
Width(t) ==
    CASE t \in {"int8", "uint8"} -> 1
      [] t \in {"int16", "uint16"} -> 2
      [] t \in {"int32", "uint32"} -> 4
      [] t \in {"int64", "uint64", "int", "uint"} -> 8

IsSigned(t) == t \in SignedTypes \cup {"int"}

\* the values of type t the model draws from
Values(t) ==
    CASE t = "string" -> {<<>>, <<104, 105>>}
      [] t = "bytes" -> {<<>>, <<0, 255>>}
      [] t = "int8" -> {-128, 42, 127}
      [] t = "int16" -> {-32768, 42, 32767}
      [] t = "int32" -> {-2147483647 - 1, 42, 2147483647}
      [] t = "int64" -> {-1, 42, 2147483647}
      [] t = "uint8" -> {0, 42, 255}
      [] t = "uint16" -> {0, 42, 65535}
      [] t = "uint32" -> {0, 42, 2147483647}
      [] t = "uint64" -> {0, 42, 2147483647}
      [] t = "int" -> {-33, 42, 300}
      [] t = "uint" -> {0, 42, 300}
      [] t = "bool" -> {TRUE, FALSE}

\* the zero value of type t
Zero(t) ==
    CASE t \in {"string", "bytes"} -> <<>>
      [] t = "bool" -> FALSE
      [] OTHER -> 0

\* conversion T(n) of a 64-bit integer to the integer type t (truncation);
\* the 32- and 64-bit targets only meet values inside their range here
Narrow(t, n) ==
    CASE t \in {"int64", "uint64", "int", "uint", "int32", "uint32"} -> n
      [] t = "int16" -> IntOf(BigEndian(n, 2))
      [] t = "uint16" -> n % 65536
      [] t = "int8" -> IntOf(BigEndian(n, 1))
      [] t = "uint8" -> n % 256

(***************************************************************************)
(* Codec of EncryptColumn                                                  *)
(***************************************************************************)
\* json.Marshal of a bool: the text true / false
jsonMarshal(v) == IF v THEN <<116, 114, 117, 101>> ELSE <<102, 97, 108, 115, 101>>

JsonSpace == {32, 9, 10, 13}

RECURSIVE TrimLeft(_)
TrimLeft(b) ==
    IF b # <<>> /\ b[1] \in JsonSpace THEN TrimLeft(Tail(b)) ELSE b

RECURSIVE TrimRight(_)
TrimRight(b) ==
    IF b # <<>> /\ b[Len(b)] \in JsonSpace THEN TrimRight(Take(b, Len(b) - 1)) ELSE b

\* json.Unmarshal into *bool: null has no effect and is no error
jsonUnmarshal(b, prior) ==
    LET t == TrimRight(TrimLeft(b)) IN
    CASE t = <<116, 114, 117, 101>> -> [err |-> "", val |-> TRUE]
      [] t = <<102, 97, 108, 115, 101>> -> [err |-> "", val |-> FALSE]
      [] t = <<110, 117, 108, 108>> -> [err |-> "", val |-> prior]
      [] OTHER -> [err |-> "json.error", val |-> prior]

\* the switch of EncryptColumn.Value: the bytes handed to aesEncrypt
EncryptColumnEncode(t, v) ==
    CASE t \in {"string", "bytes"} -> v
      [] t \in SignedTypes \cup UnsignedTypes -> BigEndian(v, Width(t))
      [] t \in {"int", "uint"} -> BigEndian(v, 8)
      [] OTHER -> jsonMarshal(v)

\* binary.Read of one fixed-width integer: io.ReadFull of Width bytes, then decode
binaryRead(t, b, prior) ==
    LET w == Width(t) IN
    IF Len(b) = 0 THEN [err |-> "io.EOF", val |-> prior]
    ELSE IF Len(b) < w THEN [err |-> "io.ErrUnexpectedEOF", val |-> prior]
    ELSE [err |-> "",
          val |-> IF IsSigned(t) THEN IntOf(Take(b, w)) ELSE UintOf(Take(b, w))]

\* EncryptColumn.setValAfterDecrypt: the error returned and the new Val
setValAfterDecrypt(t, deEncrypt, prior) ==
    CASE t \in {"string", "bytes"} -> [err |-> "", val |-> deEncrypt]
      [] t \in SignedTypes \cup UnsignedTypes -> binaryRead(t, deEncrypt, prior)
      [] t \in {"int", "uint"} -> binaryRead(t, deEncrypt, 0)
      [] OTHER -> jsonUnmarshal(deEncrypt, prior)

(***************************************************************************)
(* Codec of SecureField                                                    *)
(***************************************************************************)
\* msgpack Encoder.EncodeUint: the shortest unsigned form
msgpackEncodeUint(n) ==
    IF n <= 127 THEN <<n>>
    ELSE IF n <= 255 THEN <<204, n>>
    ELSE IF n <= 65535 THEN <<205>> \o BigEndian(n, 2)
    ELSE <<206>> \o BigEndian(n, 4)

\* msgpack Encoder.EncodeInt: the shortest signed form
msgpackEncodeInt(n) ==
    IF n >= 0 THEN msgpackEncodeUint(n)
    ELSE IF n >= -32 THEN <<n % 256>>
    ELSE IF n >= -128 THEN <<208, n % 256>>
    ELSE IF n >= -32768 THEN <<209>> \o BigEndian(n, 2)
    ELSE <<210>> \o BigEndian(n, 4)

\* msgpack.Marshal of the types SecureField.Value leaves to it
msgpackMarshal(t, v) ==
    CASE t = "int32" -> <<210>> \o BigEndian(v, 4)
      [] t = "int64" -> <<211>> \o BigEndian(v, 8)
      [] t = "uint8" -> <<204, v>>
      [] t = "uint16" -> <<205>> \o BigEndian(v, 2)
      [] t = "uint32" -> <<206>> \o BigEndian(v, 4)
      [] t = "uint64" -> <<207>> \o BigEndian(v, 8)
      [] t = "int" -> msgpackEncodeInt(v)
      [] t = "uint" -> msgpackEncodeUint(v)
      [] t = "bool" -> IF v THEN <<195>> ELSE <<194>>

\* number of bytes that follow a msgpack integer code
msgpackIntLen(c) ==
    CASE c \in {204, 208} -> 1
      [] c \in {205, 209} -> 2
      [] c \in {206, 210} -> 4
      [] c \in {207, 211} -> 8
      [] OTHER -> 0

\* msgpack Decoder.DecodeInt64 / DecodeUint64: [err, n]
msgpackDecodeInt(b) ==
    IF b = <<>> THEN [err |-> "msgpack.error", n |-> 0]
    ELSE LET c == b[1] IN
         IF c = 192 THEN [err |-> "", n |-> 0]
         ELSE IF c <= 127 \/ c >= 224 THEN [err |-> "", n |-> IntOf(<<c>>)]
         ELSE IF c \in 204..211
              THEN IF Len(b) < 1 + msgpackIntLen(c)
                   THEN [err |-> "msgpack.error", n |-> 0]
                   ELSE LET body == SubSeq(b, 2, 1 + msgpackIntLen(c)) IN
                        [err |-> "",
                         n |-> IF c >= 208 THEN IntOf(body) ELSE UintOf(body)]
              ELSE [err |-> "msgpack.error", n |-> 0]

\* msgpack.Unmarshal into *T: the error and the value it stores on success
msgpackUnmarshal(t, b) ==
    IF t = "bool"
    THEN IF b = <<>> THEN [err |-> "msgpack.error", val |-> FALSE]
         ELSE IF b[1] = 195 THEN [err |-> "", val |-> TRUE]
         ELSE IF b[1] \in {192, 194} THEN [err |-> "", val |-> FALSE]
         ELSE [err |-> "msgpack.error", val |-> FALSE]
    ELSE LET r == msgpackDecodeInt(b) IN
         [err |-> r.err, val |-> IF r.err = "" THEN Narrow(t, r.n) ELSE 0]

\* faulty variant: the int16 case written with binary.LittleEndian
SecureFieldEncodeLittleEndian(t, v) ==
    CASE t \in {"string", "bytes"} -> v
      [] t = "int8" -> <<v % 256>>
      [] t = "int16" -> <<v % 256, (v \div 256) % 256>>
      [] OTHER -> msgpackMarshal(t, v)

\* the switch of SecureField.Value: the bytes that are sealed.  The string case
\* reinterprets the string header as a slice header (convertStringToBytes): data
\* pointer and length are the string's, the capacity is whatever follows it in
\* memory; Seal reads len(data) bytes only, so the bytes sealed are the string's
SecureFieldEncode(t, v) ==
    CASE t \in {"string", "bytes"} -> v
      [] t = "int8" -> <<v % 256>>
      [] t = "int16" -> BigEndian(v, 2)
      [] OTHER -> msgpackMarshal(t, v)

\* the switch of SecureField.Scan after a successful Open:
\* err, whether the error path clears isValid, and the value on success
SecureFieldDecode(t, plainData) ==
    CASE t \in {"string", "bytes"} -> [err |-> "", clears |-> FALSE, val |-> plainData]
      [] t = "int8" ->
           IF Len(plainData) # 1
           THEN [err |-> "int8Length", clears |-> FALSE, val |-> 0]
           ELSE [err |-> "", clears |-> FALSE, val |-> IntOf(plainData)]
      [] t = "int16" ->
           IF Len(plainData) # 2
           THEN [err |-> "int16Length", clears |-> FALSE, val |-> 0]
           ELSE [err |-> "", clears |-> FALSE, val |-> IntOf(plainData)]
      [] OTHER ->
           LET r == msgpackUnmarshal(t, plainData) IN
           [err |-> IF r.err = "" THEN "" ELSE "unmarshalFailed",
            clears |-> r.err # "", val |-> r.val]

(***************************************************************************)
(* The AEAD primitive (crypto/cipher GCM over crypto/aes)                  *)
(***************************************************************************)
ValidKeyLens == {16, 24, 32}

\* aes.NewCipher accepts exactly the key sizes 16, 24 and 32
KeyLenOK(key) == Len(key) \in ValidKeyLens

\* byte i of the counter-mode key stream under (key, nonce)
KeyStream(key, nonce, i) ==
    (3 * key[((i - 1) % Len(key)) + 1] + nonce[((i - 1) % NonceSize) + 1] + i) % 256

\* counter mode: each plaintext byte is combined with its key-stream byte
Encrypt(key, nonce, data) ==
    [i \in 1..Len(data) |-> (data[i] + KeyStream(key, nonce, i)) % 256]

Decrypt(key, nonce, ct) ==
    [i \in 1..Len(ct) |-> (ct[i] - KeyStream(key, nonce, i)) % 256]

RECURSIVE WeightedSum(_, _)
WeightedSum(s, i) ==
    IF i > Len(s) THEN 0 ELSE (2 * i - 1) * s[i] + WeightedSum(s, i + 1)

\* the hash of key, nonce and ciphertext the tag is made of
TagHash(key, nonce, ct) ==
    7 * key[1] + key[Len(key)] + Len(key) + 5 * nonce[1] + nonce[NonceSize]
        + WeightedSum(ct, 1) + Len(ct)

TagByte(h, j) == (h + j) % 256

\* the authentication tag over key, nonce and ciphertext
Tag(key, nonce, ct) ==
    [j \in 1..TagSize |-> TagByte(TagHash(key, nonce, ct), j)]

\* AEAD.Seal(dst, nonce, plaintext, nil): dst || ciphertext || tag
gcmSeal(key, dst, nonce, plaintext) ==
    dst \o Encrypt(key, nonce, plaintext)
        \o Tag(key, nonce, Encrypt(key, nonce, plaintext))

\* whether the last TagSize bytes of ciphertext are the tag of the bytes before
TagMatches(key, nonce, ciphertext) ==
    \E h \in {TagHash(key, nonce, Take(ciphertext, Len(ciphertext) - TagSize))} :
        \A j \in 1..TagSize :
            ciphertext[Len(ciphertext) - TagSize + j] = TagByte(h, j)

\* AEAD.Open(nil, nonce, ciphertext, nil): [ok, plain]
gcmOpen(key, nonce, ciphertext) ==
    IF Len(ciphertext) >= TagSize /\ TagMatches(key, nonce, ciphertext)
    THEN [ok |-> TRUE,
          plain |-> Decrypt(key, nonce, Take(ciphertext, Len(ciphertext) - TagSize))]
    ELSE [ok |-> FALSE, plain |-> <<>>]

(***************************************************************************)
(* Error classes                                                           *)
(***************************************************************************)
KeyLengthErrors == {"errKeyLengthInvalid", "aes.KeySizeError", "keyLength"}
DecryptErrors == {"cipher: message authentication failed", "decryptFailed"}
DecodeErrors ==
    {"io.EOF", "io.ErrUnexpectedEOF", "json.error",
     "int8Length", "int16Length", "unmarshalFailed"}
TooShortErrors == {"invalidLength"}
UnsupportedSrcErrors == {"unsupportedSrc"}

(***************************************************************************)
(* Inputs of the model                                                     *)
(***************************************************************************)
MkKey(n, f) == [i \in 1..n |-> (f + i) % 256]

\* secrets a holder is created with: lengths around and at the accepted sizes
HolderKeys == {MkKey(n, 1) : n \in {15, 16, 24, 32, 33}}

\* every type is run under a 15- and a 16-byte secret, and these types under
\* every secret
AllKeyTypes == {"string", "int64"}

\* the secrets the holders of type t are created with
KeysFor(t) ==
    IF t \in AllKeyTypes THEN HolderKeys ELSE {MkKey(n, 1) : n \in {15, 16}}

\* valid-length keys of other writers
ForeignKeys(key) == {MkKey(n, f) : n \in ValidKeyLens, f \in {1, 2}} \ {key}

\* the k-th nonce the random source can deliver
Nonce(k) == [i \in 1..NonceSize |-> (16 * k + i) % 256]

\* outcomes of reading NonceSize bytes from crypto/rand
RandOutcomes ==
    {[ok |-> TRUE, nonce |-> Nonce(k)] : k \in 1..NumNonces}
        \cup {[ok |-> FALSE, nonce |-> [i \in 1..NonceSize |-> 0]]}

VARIABLES
    holder,     \* which implementation this holder is
    T,          \* its static type parameter
    value,      \* EncryptColumn.Val / SecureField.value
    valid,      \* EncryptColumn.Valid / SecureField.isValid
    secret,     \* EncryptColumn.Key / SecureField.secret
    initError,  \* SecureField.initError ("" is nil)
    initCount,  \* how often the key check and AEAD derivation ran (saturating)
    sealed,     \* the stored column: the last envelope Value returned (<<>>: none)
    sealedVal,  \* the value that envelope was sealed from
    lastOp,     \* "none", "Value" or "Scan": the last call
    lastErr,    \* the error it returned ("" is nil)
    lastOut,    \* the driver.Value it returned (<<>> is nil)
    lastCase,   \* how the source of the last Scan was made
    lastPlain,  \* the plaintext the last Scan decrypted from its source (<<>>: none)
    lastRand,   \* the bytes a successful Value read from the random source (<<>>: none)
    backing,    \* package slice: the array under the caller's slice src (Len = cap(src))
    srcLen,     \* package slice: len(src) of the caller's slice
    ret,        \* package slice: what the last call returned
    before,     \* package slice: the elements of src when the last call was made
    call        \* package slice: the last call and its arguments

\* the variables of a holder
holderVars == <<holder, T, value, valid, secret, initError, initCount, sealed, sealedVal,
                lastOp, lastErr, lastOut, lastCase, lastPlain, lastRand>>

\* the variables of a caller of package slice
sliceVars == <<backing, srcLen, ret, before, call>>

vars == <<holderVars, sliceVars>>

Holders == {"EncryptColumn", "SecureField"}

\* the encoder of one holder implementation
Encode(h, t, v) ==
    IF h = "EncryptColumn" THEN EncryptColumnEncode(t, v) ELSE SecureFieldEncode(t, v)

Bump(n) == IF n < MaxInitCount THEN n + 1 ELSE n

\* the body run by initOnce.Do in setupCrypto: the initError it leaves
setupCrypto(key) == IF ~KeyLenOK(key) THEN "keyLength" ELSE ""

\* what slice.Add and slice.Delete return when nothing was returned yet
NilSlice == [isNil |-> TRUE, shared |-> FALSE, array |-> <<>>, len |-> 0]
NoError == [kind |-> "nil", length |-> 0, index |-> 0]
NoCall == [op |-> "none", index |-> 0, element |-> 0]

\* no slice is in use
SliceIdle ==
    /\ backing = <<>>
    /\ srcLen = 0
    /\ ret = [slice |-> NilSlice, elem |-> 0, err |-> NoError]
    /\ before = <<>>
    /\ call = NoCall

\* a struct literal EncryptColumn[T]{Val, Valid, Key}, or NewSecureField(secret, v)
Init ==
    /\ holder \in Holders
    /\ T \in Types
    /\ secret \in KeysFor(T)
    /\ value \in Values(T)
    /\ valid \in (IF holder = "SecureField" THEN {TRUE} ELSE BOOLEAN)
    /\ initError = (IF holder = "SecureField" THEN setupCrypto(secret) ELSE "")
    /\ initCount = (IF holder = "SecureField" THEN 1 ELSE 0)
    /\ sealed = <<>>
    /\ sealedVal = Zero(T)
    /\ lastOp = "none"
    /\ lastErr = ""
    /\ lastOut = <<>>
    /\ lastCase = "none"
    /\ lastPlain = <<>>
    /\ lastRand = <<>>
    /\ SliceIdle

(***************************************************************************)
(* EncryptColumn                                                           *)
(***************************************************************************)
\* faulty variant: Seal called with a nil dst, so the nonce is not put in front
aesEncryptNilDst(key, data, rnd) ==
    IF ~KeyLenOK(key) THEN [out |-> <<>>, err |-> "aes.KeySizeError"]
    ELSE IF ~rnd.ok THEN [out |-> <<>>, err |-> "rand.error"]
    ELSE [out |-> gcmSeal(key, <<>>, rnd.nonce, data), err |-> ""]

\* aesEncrypt: [out, err]
aesEncrypt(key, data, rnd) ==
    IF ~KeyLenOK(key) THEN [out |-> <<>>, err |-> "aes.KeySizeError"]
    ELSE IF ~rnd.ok THEN [out |-> <<>>, err |-> "rand.error"]
    ELSE [out |-> gcmSeal(key, rnd.nonce, rnd.nonce, data), err |-> ""]

\* EncryptColumn.Value on the copy e: [out, err, derived]
EncryptColumnValueResult(rnd) ==
    IF ~valid THEN [out |-> <<>>, err |-> "errInvalid", derived |-> FALSE]
    ELSE IF ~KeyLenOK(secret)
         THEN [out |-> <<>>, err |-> "errKeyLengthInvalid", derived |-> FALSE]
         ELSE LET r == aesEncrypt(secret, EncryptColumnEncode(T, value), rnd) IN
              [out |-> r.out, err |-> r.err, derived |-> TRUE]

\* faulty variant: Value with a pointer receiver that records its outcome in Valid
EncryptColumnValueMarksValid ==
    /\ holder = "EncryptColumn"
    /\ \E rnd \in RandOutcomes :
         \E r \in {EncryptColumnValueResult(rnd)} :
         /\ lastOp' = "Value"
         /\ lastErr' = r.err
         /\ lastOut' = r.out
         /\ sealed' = (IF r.err = "" THEN r.out ELSE sealed)
         /\ sealedVal' = (IF r.err = "" THEN value ELSE sealedVal)
         /\ initCount' = (IF r.derived THEN Bump(initCount) ELSE initCount)
         /\ valid' = (r.err = "")
         /\ lastRand' = (IF r.err = "" THEN rnd.nonce ELSE <<>>)
    /\ lastCase' = "none"
    /\ lastPlain' = <<>>
    /\ UNCHANGED <<holder, T, value, secret, initError>>
    /\ UNCHANGED sliceVars

EncryptColumnValue ==
    /\ holder = "EncryptColumn"
    /\ \E rnd \in RandOutcomes :
         \E r \in {EncryptColumnValueResult(rnd)} :
         /\ lastOp' = "Value"
         /\ lastErr' = r.err
         /\ lastOut' = r.out
         /\ sealed' = (IF r.err = "" THEN r.out ELSE sealed)
         /\ sealedVal' = (IF r.err = "" THEN value ELSE sealedVal)
         /\ initCount' = (IF r.derived THEN Bump(initCount) ELSE initCount)
         /\ lastRand' = (IF r.err = "" THEN rnd.nonce ELSE <<>>)
    /\ lastCase' = "none"
    /\ lastPlain' = <<>>
    /\ UNCHANGED <<holder, T, value, valid, secret, initError>>
    /\ UNCHANGED sliceVars

(***************************************************************************)
(* Sources the driver can hand to Scan                                     *)
(***************************************************************************)
\* one value of each type, used to build malformed payloads
Sample(t) ==
    CASE t = "string" -> <<104, 105>>
      [] t = "bytes" -> <<0, 255>>
      [] t = "bool" -> TRUE
      [] OTHER -> 42

\* the encodings of the modelled values
Encodings(h, t) == {Encode(h, t, v) : v \in Values(t)}

\* payloads that are not the encoding of a value of the type: empty, one byte
\* short, one byte long, and ill-formed or null structured payloads
Malformed(h, t) ==
    LET e == Encode(h, t, Sample(t))
        cut == {<<>>, Take(e, Len(e) - 1)}
    IN IF h = "EncryptColumn"
       THEN IF t = "bool"
            THEN cut \cup {<<110, 117, 108, 108>>, <<32, 116, 114, 117, 101, 10>>, <<52, 50>>}
            ELSE cut \cup {Append(e, 0)}
       ELSE IF t \in {"string", "bytes", "int8", "int16"}
            THEN cut \cup {Append(e, 0)}
            ELSE cut \cup {<<192>>, <<193>>}

Pool(h, t) == Encodings(h, t) \cup Malformed(h, t)

\* the key envelopes "of this holder" are sealed under; a holder whose own secret
\* no cipher accepts only ever meets envelopes of other writers
WriterKey(key) == IF KeyLenOK(key) THEN key ELSE MkKey(16, 1)

SrcTypes == {"bytes", "string"}

TamperDeltas == {1, 128}

\* env with the byte at position pos changed by d
Tamper(env, pos, d) == [env EXCEPT ![pos] = (env[pos] + d) % 256]

\* a source: its dynamic type, its bytes, how it was made, the plaintext sealed in it
Src(typ, data, case, plain) ==
    [typ |-> typ, data |-> data, case |-> case, plain |-> plain]

\* well-formed envelopes under the holder's key, any payload, as []byte, and
\* the encodings of the values also as string
SealedInputs(h, t, key) ==
    LET case == IF KeyLenOK(key) THEN "sealed" ELSE "foreign" IN
    {Src("bytes", gcmSeal(WriterKey(key), Nonce(k), Nonce(k), p), case, p) :
        k \in 1..NumNonces, p \in Pool(h, t)}
    \cup {Src("string", gcmSeal(WriterKey(key), Nonce(1), Nonce(1), p), case, p) :
              p \in Encodings(h, t)}

\* envelopes sealed under another valid-length key
ForeignInputs(h, t, key) ==
    {Src("bytes", gcmSeal(fk, Nonce(1), Nonce(1), Encode(h, t, Sample(t))),
         "foreign", Encode(h, t, Sample(t))) : fk \in ForeignKeys(key)}

\* envelopes with one byte of the ciphertext or tag region changed
TamperedInputs(h, t, key) ==
    LET p == Encode(h, t, Sample(t))
        env == gcmSeal(WriterKey(key), Nonce(1), Nonce(1), p)
    IN {Src("bytes", Tamper(env, pos, d), "tampered", p) :
           pos \in (NonceSize + 1)..Len(env), d \in TamperDeltas}

\* sources shorter than a nonce, and sources too short to hold a tag
ShortInputs(h, t, key) ==
    LET env == gcmSeal(WriterKey(key), Nonce(1), Nonce(1), Encode(h, t, Sample(t))) IN
    {Src(ty, Take(env, n), "short", <<>>) : ty \in SrcTypes, n \in {0, 5, NonceSize - 1}}
        \cup {Src("bytes", Take(env, n), "truncated", <<>>) :
                 n \in {NonceSize, NonceSize + TagSize - 1}}

\* a source that is neither []byte nor string (an int64, a time.Time, nil, ...)
OtherInputs == {Src("int64", <<>>, "other", <<>>)}

\* the sources that do not depend on the holder's history, tabulated once
FixedInputs ==
    [h \in Holders |-> [t \in Types |-> [key \in KeysFor(t) |->
        SealedInputs(h, t, key) \cup ForeignInputs(h, t, key)
            \cup TamperedInputs(h, t, key) \cup ShortInputs(h, t, key)
            \cup OtherInputs]]]

\* the envelope Value returned last, read back from the column
StoredInputs ==
    IF sealed = <<>> THEN {}
    ELSE {Src(ty, sealed, "stored", Encode(holder, T, sealedVal)) : ty \in SrcTypes}

ScanInputs == FixedInputs[holder][T][secret] \cup StoredInputs

\* the split data[:nonceSize], data[nonceSize:] followed by AEAD.Open
OpenNonceFirst(key, data) ==
    gcmOpen(key, Take(data, NonceSize), Drop(data, NonceSize))

\* OpenNonceFirst under the holder's secret
Open(data) == OpenNonceFirst(secret, data)

\* aesDecrypt: [plain, err]; slicing data[:nonceSize], data[nonceSize:] of a
\* shorter data is a run-time panic
aesDecrypt(data) ==
    IF ~KeyLenOK(secret) THEN [plain |-> <<>>, err |-> "aes.KeySizeError"]
    ELSE IF Len(data) < NonceSize
         THEN [plain |-> <<>>, err |-> "panic: slice bounds out of range"]
         ELSE LET r == Open(data) IN
              IF r.ok THEN [plain |-> r.plain, err |-> ""]
              ELSE [plain |-> <<>>, err |-> "cipher: message authentication failed"]

\* faulty variant: Scan that goes on to decode when aesDecrypt reported a failed tag
EncryptColumnScanResultIgnoresAuth(src) ==
    IF src.typ \notin {"bytes", "string"}
    THEN [err |-> "unsupportedSrc", val |-> value, valid |-> valid, derived |-> FALSE]
    ELSE LET d == aesDecrypt(src.data) IN
         IF d.err # "" /\ d.err \notin DecryptErrors
         THEN [err |-> d.err, val |-> value, valid |-> valid, derived |-> TRUE]
         ELSE LET r == setValAfterDecrypt(T, d.plain, value) IN
              [err |-> r.err, val |-> r.val, valid |-> (r.err = ""), derived |-> TRUE]

\* EncryptColumn.Scan: [err, val, valid, derived] after the call
EncryptColumnScanResult(src) ==
    IF src.typ \notin {"bytes", "string"}
    THEN [err |-> "unsupportedSrc", val |-> value, valid |-> valid, derived |-> FALSE]
    ELSE LET d == aesDecrypt(src.data) IN
         IF d.err # ""
         THEN [err |-> d.err, val |-> value, valid |-> valid, derived |-> TRUE]
         ELSE LET r == setValAfterDecrypt(T, d.plain, value) IN
              [err |-> r.err, val |-> r.val, valid |-> (r.err = ""), derived |-> TRUE]

EncryptColumnScan ==
    /\ holder = "EncryptColumn"
    /\ \E src \in ScanInputs :
         \E r \in {EncryptColumnScanResult(src)} :
         /\ value' = r.val
         /\ valid' = r.valid
         /\ initCount' = (IF r.derived THEN Bump(initCount) ELSE initCount)
         /\ lastErr' = r.err
         /\ lastCase' = src.case
         /\ lastPlain' = (IF r.err \in {""} \cup DecodeErrors THEN src.plain ELSE <<>>)
    /\ lastOp' = "Scan"
    /\ lastOut' = <<>>
    /\ lastRand' = <<>>
    /\ UNCHANGED <<holder, T, secret, initError, sealed, sealedVal>>
    /\ UNCHANGED sliceVars

(***************************************************************************)
(* SecureField                                                             *)
(***************************************************************************)
\* faulty variant: Value without the isValid check
SecureFieldValueResultNoValidCheck(rnd) ==
    IF initError # "" THEN [out |-> <<>>, err |-> initError]
    ELSE IF ~rnd.ok THEN [out |-> <<>>, err |-> "rand.error"]
    ELSE [out |-> gcmSeal(secret, rnd.nonce, rnd.nonce, SecureFieldEncode(T, value)),
          err |-> ""]

\* faulty variant: Value seals under one stored nonce instead of the bytes just read
SecureFieldValueResultStoredNonce(rnd) ==
    IF initError # "" THEN [out |-> <<>>, err |-> initError]
    ELSE IF ~valid THEN [out |-> <<>>, err |-> "invalidValue"]
    ELSE IF ~rnd.ok THEN [out |-> <<>>, err |-> "rand.error"]
    ELSE [out |-> gcmSeal(secret, Nonce(1), Nonce(1), SecureFieldEncode(T, value)),
          err |-> ""]

\* SecureField.Value: [out, err]
SecureFieldValueResult(rnd) ==
    IF initError # "" THEN [out |-> <<>>, err |-> initError]
    ELSE IF ~valid THEN [out |-> <<>>, err |-> "invalidValue"]
    ELSE IF ~rnd.ok THEN [out |-> <<>>, err |-> "rand.error"]
    ELSE [out |-> gcmSeal(secret, rnd.nonce, rnd.nonce, SecureFieldEncode(T, value)),
          err |-> ""]

SecureFieldValue ==
    /\ holder = "SecureField"
    /\ \E rnd \in RandOutcomes :
         \E r \in {SecureFieldValueResult(rnd)} :
         /\ lastErr' = r.err
         /\ lastOut' = r.out
         /\ sealed' = (IF r.err = "" THEN r.out ELSE sealed)
         /\ sealedVal' = (IF r.err = "" THEN value ELSE sealedVal)
         /\ lastRand' = (IF r.err = "" THEN rnd.nonce ELSE <<>>)
    /\ lastOp' = "Value"
    /\ lastCase' = "none"
    /\ lastPlain' = <<>>
    /\ UNCHANGED <<holder, T, value, valid, secret, initError, initCount>>
    /\ UNCHANGED sliceVars

\* faulty variant: Scan that marks the field invalid when it rejects a short source
SecureFieldScanResultShortClears(src) ==
    IF initError # "" THEN [err |-> initError, vals |-> {value}, valid |-> valid]
    ELSE IF src.typ \notin {"bytes", "string"}
    THEN [err |-> "unsupportedSrc", vals |-> {value}, valid |-> valid]
    ELSE IF Len(src.data) < NonceSize
    THEN [err |-> "invalidLength", vals |-> {value}, valid |-> FALSE]
    ELSE LET o == Open(src.data) IN
         IF ~o.ok THEN [err |-> "decryptFailed", vals |-> {value}, valid |-> FALSE]
         ELSE LET r == SecureFieldDecode(T, o.plain) IN
              IF r.err = "" THEN [err |-> "", vals |-> {r.val}, valid |-> TRUE]
              ELSE IF r.clears
                   THEN [err |-> r.err, vals |-> {value, r.val}, valid |-> FALSE]
                   ELSE [err |-> r.err, vals |-> {value}, valid |-> valid]

\* SecureField.Scan: [err, vals, valid] after the call; vals are the values the
\* field can hold afterwards (a failed msgpack.Unmarshal may have written to it)
SecureFieldScanResult(src) ==
    IF initError # "" THEN [err |-> initError, vals |-> {value}, valid |-> valid]
    ELSE IF src.typ \notin {"bytes", "string"}
    THEN [err |-> "unsupportedSrc", vals |-> {value}, valid |-> valid]
    ELSE IF Len(src.data) < NonceSize
    THEN [err |-> "invalidLength", vals |-> {value}, valid |-> valid]
    ELSE LET o == Open(src.data) IN
         IF ~o.ok THEN [err |-> "decryptFailed", vals |-> {value}, valid |-> FALSE]
         ELSE LET r == SecureFieldDecode(T, o.plain) IN
              IF r.err = "" THEN [err |-> "", vals |-> {r.val}, valid |-> TRUE]
              ELSE IF r.clears
                   THEN [err |-> r.err, vals |-> {value, r.val}, valid |-> FALSE]
                   ELSE [err |-> r.err, vals |-> {value}, valid |-> valid]

SecureFieldScan ==
    /\ holder = "SecureField"
    /\ \E src \in ScanInputs :
         \E r \in {SecureFieldScanResult(src)} :
         /\ value' \in r.vals
         /\ valid' = r.valid
         /\ lastErr' = r.err
         /\ lastCase' = src.case
         /\ lastPlain' = (IF r.err \in {""} \cup DecodeErrors THEN src.plain ELSE <<>>)
    /\ lastOp' = "Scan"
    /\ lastOut' = <<>>
    /\ lastRand' = <<>>
    /\ UNCHANGED <<holder, T, secret, initError, initCount, sealed, sealedVal>>
    /\ UNCHANGED sliceVars

Next ==
    \/ EncryptColumnValue
    \/ EncryptColumnScan
    \/ SecureFieldValue
    \/ SecureFieldScan

Spec == Init /\ [][Next]_vars

(***************************************************************************)
(* Package slice: Add (src/internal/slice/add.go) and Delete (part_002)    *)
(* A caller holds one slice src of ints: the first srcLen cells of the     *)
(* array backing, whose length is cap(src).  Positions count from 0 as in  *)
(* the source, so position i is cell i + 1 of the sequence.  A returned    *)
(* slice is [isNil, shared, array, len]: shared tells that its array is    *)
(* the caller's array, array holds the cells of its array after the call.  *)
(***************************************************************************)
\* largest capacity of the caller's slice
MaxCap == 4
\* elements are 0..MaxElem (0 is the zero value)
MaxElem == 2

Elems == 0..MaxElem

\* the indexes a call is made with: every position, one below and two beyond
Indexes(n) == -1..(n + 1)

\* errs.NewErrIndexOutOfRange(length, index): the error value built from its arguments
NewErrIndexOutOfRange(length, index) ==
    [kind |-> "IndexOutOfRange", length |-> length, index |-> index]

\* capacity of the array append allocates when cap(src) = len(src) = c
GrowCap(c) == IF c = 0 THEN 1 ELSE 2 * c

\* append(src, zeroValue): in the spare cell of the same array if there is one,
\* else in a new array the elements are copied to
append(arr, n) ==
    IF n < Len(arr)
    THEN [array |-> [arr EXCEPT ![n + 1] = 0], len |-> n + 1, shared |-> TRUE]
    ELSE [array |-> [i \in 1..GrowCap(n) |-> IF i <= n THEN arr[i] ELSE 0],
          len |-> n + 1, shared |-> FALSE]

RECURSIVE AddShiftStopsEarly(_, _, _)
\* faulty variant: the loop of Add stops one position before index
AddShiftStopsEarly(arr, i, index) ==
    IF i > index + 1
    THEN AddShiftStopsEarly([arr EXCEPT ![i + 1] = arr[i]], i - 1, index)
    ELSE arr

RECURSIVE AddShift(_, _, _)
\* the loop of Add: for i := len(src) - 1; i > index; i-- { src[i] = src[i-1] }
AddShift(arr, i, index) ==
    IF i > index
    THEN AddShift([arr EXCEPT ![i + 1] = arr[i]], i - 1, index)
    ELSE arr

\* Add(src, element, index): the slice and error returned, and the cells of the
\* caller's array after the call
Add(arr, n, element, index) ==
    IF index < 0 \/ index > n
    THEN [backing |-> arr, slice |-> NilSlice, err |-> NewErrIndexOutOfRange(n, index)]
    ELSE LET a == append(arr, n)
             moved == [AddShift(a.array, a.len - 1, index) EXCEPT ![index + 1] = element]
         IN [backing |-> IF a.shared THEN moved ELSE arr,
             slice |-> [isNil |-> FALSE, shared |-> a.shared,
                        array |-> moved, len |-> a.len],
             err |-> NoError]

RECURSIVE DeleteShiftStopsEarly(_, _, _)
\* faulty variant: the loop of Delete leaves the last element where it is
DeleteShiftStopsEarly(arr, i, length) ==
    IF i + 2 < length
    THEN DeleteShiftStopsEarly([arr EXCEPT ![i + 1] = arr[i + 2]], i + 1, length)
    ELSE arr

RECURSIVE DeleteShift(_, _, _)
\* the loop of Delete: for i := index; i+1 < length; i++ { src[i] = src[i+1] }
DeleteShift(arr, i, length) ==
    IF i + 1 < length
    THEN DeleteShift([arr EXCEPT ![i + 1] = arr[i + 2]], i + 1, length)
    ELSE arr

\* faulty variant: Delete builds its result in a new array and leaves src alone
DeleteCopying(arr, n, index) ==
    IF index < 0 \/ index >= n
    THEN [backing |-> arr, slice |-> NilSlice, elem |-> 0,
          err |-> NewErrIndexOutOfRange(n, index)]
    ELSE [backing |-> arr,
          slice |-> [isNil |-> FALSE, shared |-> FALSE,
                     array |-> Take(DeleteShift(arr, index, n), n - 1), len |-> n - 1],
          elem |-> arr[index + 1],
          err |-> NoError]

\* Delete(src, index): the slice, element and error returned, and the cells of
\* the caller's array after the call
Delete(arr, n, index) ==
    IF index < 0 \/ index >= n
    THEN [backing |-> arr, slice |-> NilSlice, elem |-> 0,
          err |-> NewErrIndexOutOfRange(n, index)]
    ELSE LET moved == DeleteShift(arr, index, n) IN
         [backing |-> moved,
          slice |-> [isNil |-> FALSE, shared |-> TRUE, array |-> moved, len |-> n - 1],
          elem |-> arr[index + 1],
          err |-> NoError]

\* the elements seen through a slice of length n over the array arr
Elements(arr, n) == Take(arr, n)

\* no holder is in use
HolderIdle ==
    /\ holder = "EncryptColumn"
    /\ T = "int8"
    /\ value = 0
    /\ valid = FALSE
    /\ secret = <<>>
    /\ initError = ""
    /\ initCount = 0
    /\ sealed = <<>>
    /\ sealedVal = 0
    /\ lastOp = "none"
    /\ lastErr = ""
    /\ lastOut = <<>>
    /\ lastCase = "none"
    /\ lastPlain = <<>>
    /\ lastRand = <<>>

\* a caller's slice: any elements, any length up to its capacity
SliceInit ==
    /\ HolderIdle
    /\ backing \in UNION {[1..c -> Elems] : c \in 0..MaxCap}
    /\ srcLen \in 0..Len(backing)
    /\ ret = [slice |-> NilSlice, elem |-> 0, err |-> NoError]
    /\ before = <<>>
    /\ call = NoCall

\* res, err := Add(src, element, index)
AddCall ==
    /\ \E element \in Elems, index \in Indexes(srcLen) :
         \E r \in {Add(backing, srcLen, element, index)} :
         /\ backing' = r.backing
         /\ ret' = [slice |-> r.slice, elem |-> 0, err |-> r.err]
         /\ call' = [op |-> "Add", index |-> index, element |-> element]
    /\ before' = Elements(backing, srcLen)
    /\ UNCHANGED srcLen
    /\ UNCHANGED holderVars

\* res, elem, err := Delete(src, index)
DeleteCall ==
    /\ \E index \in Indexes(srcLen) :
         \E r \in {Delete(backing, srcLen, index)} :
         /\ backing' = r.backing
         /\ ret' = [slice |-> r.slice, elem |-> r.elem, err |-> r.err]
         /\ call' = [op |-> "Delete", index |-> index, element |-> 0]
    /\ before' = Elements(backing, srcLen)
    /\ UNCHANGED srcLen
    /\ UNCHANGED holderVars

SliceNext ==
    \/ AddCall
    \/ DeleteCall

SliceSpec == SliceInit /\ [][SliceNext]_vars

(***************************************************************************)
(* C1: whenever Scan returns an error of its decrypt step or of its decode *)
(* step, the validity flag is false right after the call.                  *)
(***************************************************************************)
C1_ScanFailureClearsValid ==
    (lastOp = "Scan" /\ lastErr \in DecryptErrors \cup DecodeErrors) => ~valid

(***************************************************************************)
(* C2: on a holder whose secret is not 16, 24 or 32 bytes long every call  *)
(* fails with the key-length error, the same one every time; on a holder   *)
(* with a secret of 16, 24 or 32 bytes no call returns a key-length error. *)
(***************************************************************************)
C2_BadKeyFailsIdentically ==
    [][/\ ~KeyLenOK(secret) =>
            /\ lastErr' \in KeyLengthErrors
            /\ lastOp # "none" => lastErr' = lastErr
       /\ KeyLenOK(secret) => lastErr' \notin KeyLengthErrors]_vars

(***************************************************************************)
(* C3: with a valid-length secret, a Scan that returns no error leaves the *)
(* flag true and the value equal to the decoding, for the type T, of the   *)
(* plaintext sealed in the envelope (a function of that plaintext alone).  *)
(***************************************************************************)
DecodingOf(h, t, p) ==
    IF h = "EncryptColumn" THEN setValAfterDecrypt(t, p, Zero(t)).val
    ELSE SecureFieldDecode(t, p).val

C3_ScanSuccessStoresDecoded ==
    (lastOp = "Scan" /\ lastErr = "" /\ KeyLenOK(secret)) =>
        (valid /\ value = DecodingOf(holder, T, lastPlain))

(***************************************************************************)
(* C4: round trip.  Scanning the envelope that Value returned for a value  *)
(* v of a primitive type, on a holder of the same type and secret, returns *)
(* no error and leaves the holder Valid with value v.                      *)
(***************************************************************************)
C4_RoundTrip ==
    (lastOp = "Scan" /\ lastCase = "stored" /\ T \in PrimitiveTypes) =>
        (lastErr = "" /\ valid /\ value = sealedVal)

\* the empty string went through Value and came back through Scan
C4_Witness ==
    /\ lastOp = "Scan" /\ lastCase = "stored" /\ lastErr = ""
    /\ T = "string" /\ value = <<>> /\ sealedVal = <<>> /\ valid

(***************************************************************************)
(* C5: the key check and AEAD derivation of one holder run exactly once    *)
(* over its lifetime; later calls replay the cached outcome.               *)
(***************************************************************************)
C5_InitAtMostOnce == initCount <= 1

(***************************************************************************)
(* C6: with a valid-length secret, Scan of a source shorter than the nonce *)
(* returns the envelope-too-short error as an ordinary error value.        *)
(***************************************************************************)
C6_ShortEnvelopeIsError ==
    (lastOp = "Scan" /\ lastCase = "short" /\ KeyLenOK(secret)) =>
        lastErr \in TooShortErrors

(***************************************************************************)
(* C7: Scan of a source that is neither a byte sequence nor a string fails *)
(* with the unsupported-source-type error in every state of the holder.    *)
(***************************************************************************)
C7_UnsupportedSourceAlways ==
    (lastOp = "Scan" /\ lastCase = "other") => lastErr \in UnsupportedSrcErrors

(***************************************************************************)
(* C8: a Value call on a holder whose validity flag is false returns an    *)
(* error and no envelope.                                                  *)
(***************************************************************************)
C8_InvalidNeverSeals ==
    [][(~valid /\ lastOp' = "Value") => (lastErr' # "" /\ lastOut' = <<>>)]_vars

\* a SecureField that a failed Scan made Invalid refused to seal
C8_Witness ==
    /\ holder = "SecureField" /\ lastOp = "Value" /\ ~valid
    /\ lastErr = "invalidValue" /\ lastOut = <<>>

(***************************************************************************)
(* C9: Value never changes the holder: value, validity flag, secret and    *)
(* the cached cipher-context outcome are the same after the call.          *)
(***************************************************************************)
C9_ValueLeavesHolder ==
    [][lastOp' = "Value" => UNCHANGED <<value, valid, secret, initError>>]_vars

\* a successful Value on a Valid holder
C9_Witness == lastOp = "Value" /\ lastErr = "" /\ lastOut # <<>> /\ valid

(***************************************************************************)
(* C10: with a valid-length secret, Scan of an envelope sealed under       *)
(* another valid-length key, or with one byte of the ciphertext or tag     *)
(* changed, fails with a decryption error and leaves the value as it was.  *)
(***************************************************************************)
C10_TamperAndWrongKeyRejected ==
    [][(KeyLenOK(secret) /\ lastOp' = "Scan" /\ lastCase' \in {"foreign", "tampered"}) =>
          (lastErr' \in DecryptErrors /\ value' = value)]_vars

\* a tampered envelope was rejected and the value sealed before is still held
C10_Witness ==
    /\ lastOp = "Scan" /\ lastCase = "tampered" /\ lastErr \in DecryptErrors
    /\ KeyLenOK(secret) /\ sealed # <<>> /\ value = sealedVal

(***************************************************************************)
(* C11: on a holder of a fixed-width numeric type (8/16/32/64-bit, signed  *)
(* or unsigned) a Scan whose decrypt step succeeded returns no error       *)
(* exactly when the decrypted plaintext is as long as the type's encoded   *)
(* width; a shorter and a longer plaintext both end in a decode error.     *)
(***************************************************************************)
C11_WidthMismatchFails ==
    (/\ lastOp = "Scan" /\ KeyLenOK(secret)
     /\ T \in SignedTypes \cup UnsignedTypes
     /\ lastErr \in {""} \cup DecodeErrors) =>
        (lastErr = "" <=> Len(lastPlain) = Width(T))

(***************************************************************************)
(* C12: for every integer type and value, the plaintext sealed by a        *)
(* successful Value is the big-endian form of the value at the natural     *)
(* width of the type (1/2/4/8 bytes; 8 bytes for int and uint), on both    *)
(* holders.                                                                *)
(***************************************************************************)
C12_BigEndianNaturalWidth ==
    (/\ lastOp = "Value" /\ lastErr = ""
     /\ T \in SignedTypes \cup UnsignedTypes \cup {"int", "uint"}) =>
        OpenNonceFirst(secret, lastOut) =
            [ok |-> TRUE, plain |-> BigEndian(value, Width(T))]

(***************************************************************************)
(* C13: every envelope a successful Value returns is nonce || ciphertext   *)
(* || tag: it is 12 + (length of the encoded value) + 16 bytes long, and   *)
(* its first 12 bytes are a nonce of the random source under which the     *)
(* remainder opens to the encoded value.                                   *)
(***************************************************************************)
C13_EnvelopeLayout ==
    (lastOp = "Value" /\ lastErr = "") =>
        /\ Len(lastOut) = NonceSize + Len(Encode(holder, T, value)) + TagSize
        /\ \E k \in 1..NumNonces : Take(lastOut, NonceSize) = Nonce(k)
        /\ gcmOpen(secret, Take(lastOut, NonceSize), Drop(lastOut, NonceSize)) =
               [ok |-> TRUE, plain |-> Encode(holder, T, value)]

\* the empty string was sealed into a 28-byte envelope
C13_Witness ==
    /\ lastOp = "Value" /\ lastErr = "" /\ holder = "EncryptColumn"
    /\ T = "string" /\ value = <<>> /\ Len(lastOut) = NonceSize + TagSize

(***************************************************************************)
(* C14: a holder whose cipher-context initialization failed on a bad key   *)
(* length is Invalid from then on: its validity flag is false in every     *)
(* state after the failed initialization, whatever calls are made.         *)
(***************************************************************************)
C14_BadKeyPermanentlyInvalid == ~KeyLenOK(secret) => ~valid

(***************************************************************************)
(* C15 as stated: over successive successful Value calls of one holder no  *)
(* two returned envelopes carry the same leading 12-byte nonce (here: an   *)
(* envelope and the one returned before it).                               *)
(***************************************************************************)
C15_NoNonceReuse ==
    [][(lastOp' = "Value" /\ lastErr' = "" /\ sealed # <<>>) =>
          Take(lastOut', NonceSize) # Take(sealed, NonceSize)]_vars

(***************************************************************************)
(* C15 as amended: every successful Value reads 12 bytes from the random   *)
(* source and the envelope it returns begins with exactly those bytes, so  *)
(* no nonce is stored and reused or derived from the value or the key, and *)
(* two envelopes share a nonce only if the source delivered it twice.      *)
(***************************************************************************)
C15_NonceIsTheDraw ==
    (lastOp = "Value" /\ lastErr = "") =>
        /\ Len(lastRand) = NonceSize
        /\ Take(lastOut, NonceSize) = lastRand

\* an envelope that begins with the second nonce of the random source, returned
\* after an earlier envelope
C15_Witness ==
    /\ lastOp = "Value" /\ lastErr = "" /\ lastRand = Nonce(2)
    /\ Take(lastOut, NonceSize) = Nonce(2) /\ initCount > 1

(***************************************************************************)
(* C16: Add(src, element, index) with 0 <= index <= len(src) returns no    *)
(* error and a slice one longer than src that holds element at index, the  *)
(* elements of src below index in place and those from index on one        *)
(* position later; with any other index it returns a nil slice and the     *)
(* index-out-of-range error built from (len(src), index).                  *)
(***************************************************************************)
C16_AddInserts ==
    call.op = "Add" =>
        LET n == Len(before)
            r == Elements(ret.slice.array, ret.slice.len)
        IN IF 0 <= call.index /\ call.index <= n
           THEN /\ ret.err = NoError
                /\ ~ret.slice.isNil
                /\ Len(r) = n + 1
                /\ r[call.index + 1] = call.element
                /\ \A i \in 0..(n - 1) :
                      IF i < call.index THEN r[i + 1] = before[i + 1]
                      ELSE r[i + 2] = before[i + 1]
           ELSE /\ ret.slice = NilSlice
                /\ ret.err = NewErrIndexOutOfRange(n, call.index)

\* an insertion at the head of a full slice of three elements
C16_Witness ==
    /\ call = [op |-> "Add", index |-> 0, element |-> 2]
    /\ before = <<1, 0, 1>> /\ Len(backing) = 3 /\ srcLen = 3
    /\ Elements(ret.slice.array, ret.slice.len) = <<2, 1, 0, 1>>
    /\ ret.err = NoError

(***************************************************************************)
(* C17: Delete(src, index) with 0 <= index < len(src) returns no error,    *)
(* the old src[index], and a slice one shorter than src holding the other  *)
(* elements in their order; with any other index (every index on an empty  *)
(* slice) it returns a nil slice, the zero value and the index-out-of-     *)
(* range error built from (len(src), index).                               *)
(***************************************************************************)
C17_DeleteRemoves ==
    call.op = "Delete" =>
        LET n == Len(before)
            r == Elements(ret.slice.array, ret.slice.len)
        IN IF 0 <= call.index /\ call.index < n
           THEN /\ ret.err = NoError
                /\ ~ret.slice.isNil
                /\ ret.elem = before[call.index + 1]
                /\ Len(r) = n - 1
                /\ \A i \in 0..(n - 2) :
                      IF i < call.index THEN r[i + 1] = before[i + 1]
                      ELSE r[i + 1] = before[i + 2]
           ELSE /\ ret.slice = NilSlice
                /\ ret.elem = 0
                /\ ret.err = NewErrIndexOutOfRange(n, call.index)

\* the first of three elements was removed
C17_Witness ==
    /\ call.op = "Delete" /\ call.index = 0 /\ before = <<2, 0, 1>>
    /\ ret.elem = 2 /\ ret.err = NoError
    /\ Elements(ret.slice.array, ret.slice.len) = <<0, 1>>

(***************************************************************************)
(* C18: a Scan that is rejected before its decrypt step (a source that is  *)
(* neither bytes nor string, a source shorter than the nonce, or a secret  *)
(* no cipher context can be made of) leaves the value and the validity     *)
(* flag of the holder as they were before the call.                        *)
(***************************************************************************)
C18_EarlyRejectLeavesHolder ==
    [][(/\ lastOp' = "Scan"
        /\ \/ lastCase' \in {"other", "short"}
           \/ ~KeyLenOK(secret)) => UNCHANGED <<value, valid>>]_vars

\* a Valid holder rejected a source shorter than the nonce and is still Valid
C18_Witness ==
    /\ lastOp = "Scan" /\ lastCase = "short" /\ lastErr \in TooShortErrors
    /\ valid /\ sealed # <<>> /\ value = sealedVal

(***************************************************************************)
(* C19: Delete works in place and allocates nothing.  After a successful   *)
(* Delete(src, index) on a slice of length n the returned slice lies in    *)
(* the caller's array, and the caller's slice, still of length n, holds    *)
(* the old elements index+1..n-1 in positions index..n-2, the old last     *)
(* element in position n-1, and the old elements below index ([1,2,3,4]    *)
(* with index 2 becomes [1,2,4,4]); with an index out of range the         *)
(* caller's slice is unchanged.                                            *)
(***************************************************************************)
C19_DeleteInPlace ==
    call.op = "Delete" =>
        LET n == Len(before)
            now == Elements(backing, srcLen)
        IN /\ srcLen = n
           /\ IF 0 <= call.index /\ call.index < n
              THEN /\ ret.slice.shared
                   /\ Len(ret.slice.array) = Len(backing)
                   /\ \A i \in 0..(n - 1) :
                         now[i + 1] = IF i < call.index \/ i = n - 1
                                      THEN before[i + 1]
                                      ELSE before[i + 2]
              ELSE now = before

\* the example of the source: [1,2,3,4] with index 2 (elements 1, 2, 0, 1 here)
C19_Witness ==
    /\ call.op = "Delete" /\ call.index = 2 /\ before = <<1, 2, 0, 1>>
    /\ Elements(backing, srcLen) = <<1, 2, 1, 1>> /\ ret.elem = 0

(***************************************************************************)
(* C20: Add returns a new slice and leaves the elements seen through the   *)
(* caller's slice (positions 0..len(src)-1) unchanged, whether or not the  *)
(* capacity of src exceeds its length and whether or not the index is in   *)
(* range.                                                                  *)
(***************************************************************************)
C20_AddLeavesCallerSlice ==
    call.op = "Add" => Elements(backing, srcLen) = before

====
